---- MODULE Spec2Model ----
(***************************************************************************)
(* Contract Analysis API (src/last_phase_app_api.py) together with the     *)
(* stand-alone ingestion script (src/app.py) that shares its vector store. *)
(*                                                                         *)
(* State: the metadata directory, the upload directory, the in-memory      *)
(* registry, the process-wide counters and the persisted vector index.     *)
(* The handlers are coroutines on one event loop: a handler runs without   *)
(* interruption between two awaits.  /extract, /ask, /audit, /documents    *)
(* and /metrics contain no await, so each is one action.  /ingest awaits   *)
(* file.read() once per file, so it is cut there: IngestStart runs up to   *)
(* the first await, IngestResume from one await to the next (or the end).  *)
(* A response is sent before the next handler runs: req and resp hold the  *)
(* exchange that has just completed, until Respond hands it to the client. *)
(*                                                                         *)
(* The vector index is the sequence of stored chunks; a chunk is known by   *)
(* its position and carries the document_id of its metadata.  The rank of  *)
(* a chunk depends on the question and on embeddings the service does not  *)
(* compute, so similarity_search(query, n) is any n distinct chunks in any *)
(* order (all of them when fewer than n are stored).                       *)
(*                                                                         *)
(* Spec is the service from an empty store.  SpecAsk and SpecStream start  *)
(* from a store that already holds contracts (InitStored): SpecAsk puts    *)
(* questions to it, SpecStream runs the generator stream_answer, cut at    *)
(* its yields.                                                             *)
(***************************************************************************)
EXTENDS Integers, Sequences, FiniteSets, TLC

\* ---------------------------------------------------------------- bounds
MaxDocs == 2
MaxFiles == 2
MaxChunks == 1
MaxK == 2
MaxUntagged == 1
MaxFindings == 2
MaxRequests == 2
MaxIds == 2

\* ------------------------------------------------------ program constants
OverFetch == 5

\* -------------------------------------------------------------- universes
UuidPool == <<"u1", "u2", "u3", "u4", "u5", "u6">>

DocIds == {UuidPool[n] : n \in 1..MaxDocs}

\* The value of doc.metadata.get("document_id") when the chunk has no such key.
NoneId == "<None>"

\* The identifiers a client may send: the issued ones, never-issued ones, and
\* the literal default of the citation builder.
ReqIds == DocIds \cup {"unknown"}

\* UploadFile.filename, character by character
Pdf == <<"c", ".", "p", "d", "f">>
Txt == <<"c", ".", "t", "x", "t">>
Filenames == {Pdf, Txt}
DotPdf == <<".", "p", "d", "f">>

NoAnswer == "No relevant information found in the specified documents."

VARIABLES
    metadata_dir,        \* METADATA_DIR: document_id -> contents of <id>.json
    upload_dir,          \* UPLOAD_DIR: the stored PDFs, named by document_id
    document_registry,   \* the in-memory registry
    metrics,             \* the process-wide counters
    chroma,              \* CHROMA_DIR: document_id tag of each chunk, by rank
    issued,              \* the values uuid4 has returned so far
    ing,                 \* the /ingest coroutine: its position and locals
    req,                 \* the last request
    resp,                \* the response to it
    gen                  \* the stream_answer generator: position, locals, events

vars == <<metadata_dir, upload_dir, document_registry, metrics, chroma, issued,
          ing, req, resp, gen>>

\* ---------------------------------------------------------------- helpers
Min(a, b) == IF a < b THEN a ELSE b

\* str.endswith
EndsWith(s, suffix) ==
    /\ Len(s) >= Len(suffix)
    /\ SubSeq(s, Len(s) - Len(suffix) + 1, Len(s)) = suffix

\* f with key k bound to v (a dict assignment, or a file written in a directory)
Put(f, k, v) == [x \in (DOMAIN f) \cup {k} |-> IF x = k THEN v ELSE f[x]]

Range(s) == {s[n] : n \in 1..Len(s)}

\* uuid.uuid4(): a value never returned before
Uuid4Colliding == DocIds
Uuid4 == DocIds \ issued

\* Chroma.from_documents(chunks, ...) after the tagging loop of
\* create_vector_db: n more chunks, each carrying `tag`.
create_vector_db(idx, tag, n) == idx \o [p \in 1..n |-> tag]

\* len(list(Path(METADATA_DIR).glob("*.json")))
MetadataFiles == DOMAIN metadata_dir

\* The successful /extract, /ask and /audit requests so far; a request of
\* these may succeed while Served < MaxRequests.  (total_ingestions is
\* bounded by MaxDocs.)
Served == metrics.total_extractions + metrics.total_questions + metrics.total_audits

Idle == [pc |-> "idle", files |-> <<>>, i |-> 0, document_ids |-> <<>>,
         total_chunks |-> 0, document_id |-> NoneId]

NoRequest == [op |-> "none"]
NoResponse == [op |-> "none", status |-> 0]

\* no response is waiting to be sent
Quiet == resp = NoResponse

\* stream_answer has not been called
GenIdle == [pc |-> "idle", docs |-> <<>>, n |-> 0, raised |-> FALSE,
            events |-> <<>>]

Init ==
    /\ metadata_dir = <<>>
    /\ upload_dir = {}
    /\ document_registry = <<>>
    /\ metrics = [total_ingestions |-> 0, total_extractions |-> 0,
                  total_questions |-> 0, total_audits |-> 0]
    /\ chroma = <<>>
    /\ issued = {}
    /\ ing = Idle
    /\ req = NoRequest
    /\ resp = NoResponse
    /\ gen = GenIdle

\* ------------------------------------------------------------ POST /ingest
\* What can happen to one file after its bytes were read (lines 448-480):
\* every call returns, or load_pdf / chunk_documents / the embedding call
\* raises before the index is touched, or vectordb.persist() /
\* save_document_metadata raises after the chunks were added.
IngestOutcomes == {"ok", "load_pdf raised", "save raised"}

\* The metadata dict of lines 467-475.  The upload date, the page count and
\* the text preview are whatever the ingestion computed: one value each.
\* The keys extracted_fields and audit_results are not in it yet.
NewMetadata(id, filename, n) ==
    [document_id |-> id, filename |-> filename, upload_date |-> "a date",
     num_pages |-> "a page count", num_chunks |-> n, file_path |-> id,
     full_text_preview |-> "a preview",
     extracted_fields |-> "absent", audit_results |-> {}]

\* `except Exception` of ingest_contracts: every exception raised inside the
\* try, the HTTPException(400) of the suffix test included, becomes a 500.
IngestAbortRetrying(files, detail) ==
    /\ ing' = ing
    /\ req' = [op |-> "ingest", files |-> files]
    /\ resp' = [op |-> "ingest", status |-> 500, detail |-> detail]
    /\ metrics' = metrics
IngestAbort(files, detail) ==
    /\ ing' = Idle
    /\ req' = [op |-> "ingest", files |-> files]
    /\ resp' = [op |-> "ingest", status |-> 500, detail |-> detail]
    /\ metrics' = metrics

\* The counter update and the IngestResponse.
IngestReturnCountingBatches(files, ids, total) ==
    /\ ing' = Idle
    /\ metrics' = [metrics EXCEPT !.total_ingestions = @ + 1]
    /\ req' = [op |-> "ingest", files |-> files]
    /\ resp' = [op |-> "ingest", status |-> 200, document_ids |-> ids,
                total_chunks |-> total]
IngestReturn(files, ids, total) ==
    /\ ing' = Idle
    /\ metrics' = [metrics EXCEPT !.total_ingestions = @ + Len(files)]
    /\ req' = [op |-> "ingest", files |-> files]
    /\ resp' = [op |-> "ingest", status |-> 200, document_ids |-> ids,
                total_chunks |-> total]

\* The loop body for file number i up to `await file.read()`: the suffix
\* test, uuid4 and the creation of the upload file.
BeginFile(files, i, ids, total) ==
    IF ~EndsWith(files[i], DotPdf)
    THEN /\ IngestAbort(files, "not a PDF")
         /\ UNCHANGED <<upload_dir, issued>>
    ELSE \E id \in Uuid4 :
            /\ issued' = issued \cup {id}
            /\ upload_dir' = upload_dir \cup {id}
            /\ ing' = [pc |-> "reading", files |-> files, i |-> i,
                       document_ids |-> ids, total_chunks |-> total,
                       document_id |-> id]
            /\ UNCHANGED <<metrics, req, resp>>

\* From the call of the handler to its first await (or its end).
IngestStart(files) ==
    /\ Quiet
    /\ UNCHANGED gen
    /\ ing.pc = "idle"
    /\ IF files = <<>>
       THEN /\ req' = [op |-> "ingest", files |-> files]
            /\ resp' = [op |-> "ingest", status |-> 400, detail |-> "No files provided"]
            /\ UNCHANGED <<upload_dir, issued, ing, metrics>>
       ELSE /\ Len(files) <= Cardinality(DocIds \ issued)
            /\ BeginFile(files, 1, <<>>, 0)
    /\ UNCHANGED <<metadata_dir, document_registry, chroma>>

\* total_chunks += len(chunks)
Overwrite(total_chunks, n) == n
Accumulate(total_chunks, n) == total_chunks + n

\* From one await to the next (or to the end of the handler): the rest of
\* the loop body for file ing.i, then the head of the body for the next file
\* or the return.
IngestResume(outcome, n) ==
    /\ Quiet
    /\ UNCHANGED gen
    /\ ing.pc = "reading"
    /\ LET id == ing.document_id
           files == ing.files
           md == NewMetadata(id, files[ing.i], n)
       IN CASE outcome = "load_pdf raised" ->
                 /\ IngestAbort(files, outcome)
                 /\ UNCHANGED <<metadata_dir, document_registry, chroma,
                                upload_dir, issued>>
            [] outcome = "save raised" ->
                 /\ chroma' = create_vector_db(chroma, id, n)
                 /\ IngestAbort(files, outcome)
                 /\ UNCHANGED <<metadata_dir, document_registry, upload_dir, issued>>
            [] outcome = "ok" ->
                 /\ chroma' = create_vector_db(chroma, id, n)
                 /\ metadata_dir' = Put(metadata_dir, id, md)
                 /\ document_registry' = Put(document_registry, id, md)
                 /\ IF ing.i < Len(files)
                    THEN BeginFile(files, ing.i + 1, Append(ing.document_ids, id),
                                   Accumulate(ing.total_chunks, n))
                    ELSE /\ IngestReturn(files, Append(ing.document_ids, id),
                                         Accumulate(ing.total_chunks, n))
                         /\ UNCHANGED <<upload_dir, issued>>

\* ------------------------------------------------- src/app.py and the disk
\* ingest_pdf of src/app.py: its create_vector_db writes the chunks into the
\* same CHROMA_DIR without a document_id.
ingest_pdf(n) ==
    /\ Quiet
    /\ UNCHANGED gen
    /\ Cardinality({p \in 1..Len(chroma) : chroma[p] = NoneId}) + n <= MaxUntagged
    /\ chroma' = create_vector_db(chroma, NoneId, n)
    /\ UNCHANGED <<metadata_dir, upload_dir, document_registry, metrics, issued,
                   ing, req, resp>>

\* The stored PDF of a registered document is removed from UPLOAD_DIR by the
\* operator; the service itself never deletes one.
RemovePdf(id) ==
    /\ Quiet
    /\ UNCHANGED gen
    /\ id \in MetadataFiles
    /\ id \in upload_dir
    /\ upload_dir' = upload_dir \ {id}
    /\ UNCHANGED <<metadata_dir, document_registry, metrics, chroma, issued,
                   ing, req, resp>>

\* ----------------------------------------------------------- POST /extract
\* What the stubbed chat model answers to the extraction prompt.  LlmError
\* stands for the call itself raising (network, quota).
LlmError == "<APIError>"
\* The reply recorded with a response when the model was not called.
NotCalled == "<not called>"
ExtractTexts == {"I cannot help", "[]", "{parties: null}", "{}", "{parties: [Acme]}"}
ExtractReplies == ExtractTexts \cup {LlmError}

\* json.loads raises JSONDecodeError on text that is not JSON
IsJson(text) == text # "I cannot help"
\* ContractFields(**fields_dict) raises TypeError unless fields_dict is a mapping
IsObject(text) == text \in {"{parties: null}", "{}", "{parties: [Acme]}"}
\* ... and a ValidationError when a value has the wrong type (parties: List[str])
Conforms(text) == text \in {"{}", "{parties: [Acme]}"}

\* extract_contract_fields: only json.JSONDecodeError is caught.
extract_contract_fields(reply) ==
    IF reply = LlmError THEN [raised |-> TRUE, fields |-> "none"]
    ELSE IF ~IsJson(reply) THEN [raised |-> FALSE, fields |-> "empty"]
    ELSE IF ~IsObject(reply) \/ ~Conforms(reply) THEN [raised |-> TRUE, fields |-> "none"]
    ELSE [raised |-> FALSE, fields |-> IF reply = "{}" THEN "empty" ELSE "parsed"]

\* load_document_metadata and the file_path test shared by /extract and
\* /audit: TRUE when the handler raises HTTPException(404).
NotFoundIgnoringFile(id) == id \notin MetadataFiles
NotFound(id) ==
    \/ id \notin MetadataFiles
    \/ metadata_dir[id].file_path \notin upload_dir

\* load_document_metadata, past its 404: the record read back from <id>.json
load_from_registry(id) == document_registry[id]
load_document_metadata(id) == metadata_dir[id]

extract_fields(id, reply) ==
    /\ Quiet
    /\ UNCHANGED gen
    /\ req' = [op |-> "extract", document_id |-> id]
    /\ IF NotFound(id)
       THEN /\ resp' = [op |-> "extract", status |-> 404, llm_reply |-> NotCalled]
            /\ UNCHANGED <<metadata_dir, metrics>>
       ELSE LET r == extract_contract_fields(reply)
            IN IF r.raised
               THEN /\ resp' = [op |-> "extract", status |-> 500, llm_reply |-> reply]
                    /\ UNCHANGED <<metadata_dir, metrics>>
               ELSE /\ Served < MaxRequests
                    /\ metadata_dir' =
                         Put(metadata_dir, id,
                             [load_document_metadata(id) EXCEPT !.extracted_fields = r.fields])
                    /\ metrics' = [metrics EXCEPT !.total_extractions = @ + 1]
                    /\ resp' = [op |-> "extract", status |-> 200, llm_reply |-> reply,
                                document_id |-> id, fields |-> r.fields]
    /\ UNCHANGED <<upload_dir, document_registry, chroma, issued, ing>>

\* ------------------------------------------------------------- POST /audit
\* The reply to the audit prompt: text that is not JSON, a JSON value that is
\* not an array, or an array whose items are well-formed findings or junk.
AuditItems == UNION {[1..m -> {"finding", "junk"}] : m \in 0..MaxFindings}
AuditReplies ==
    {[json |-> j, items |-> <<>>] : j \in {"raises", "invalid", "object"}}
        \cup {[json |-> "array", items |-> it] : it \in AuditItems}

AuditNotCalled == [json |-> "not called", items |-> <<>>]

\* audit_contract_risks: every exception of the parse is caught.
audit_contract_risks_unvalidated(reply) == reply.items
audit_contract_risks(reply) ==
    IF reply.json = "array" /\ \A n \in 1..Len(reply.items) : reply.items[n] = "finding"
    THEN reply.items
    ELSE <<>>

audit_contract(id, reply) ==
    /\ Quiet
    /\ UNCHANGED gen
    /\ req' = [op |-> "audit", document_id |-> id]
    /\ IF NotFound(id)
       THEN /\ resp' = [op |-> "audit", status |-> 404, llm_reply |-> AuditNotCalled]
            /\ UNCHANGED <<metadata_dir, metrics>>
       ELSE IF reply.json = "raises"
       THEN /\ resp' = [op |-> "audit", status |-> 500, llm_reply |-> reply]
            /\ UNCHANGED <<metadata_dir, metrics>>
       ELSE LET findings == audit_contract_risks(reply)
                audit_results == [total_risks |-> Len(findings), findings |-> findings]
            IN /\ Served < MaxRequests
               /\ metadata_dir' =
                    Put(metadata_dir, id,
                        [load_document_metadata(id) EXCEPT !.audit_results = {audit_results}])
               /\ metrics' = [metrics EXCEPT !.total_audits = @ + 1]
               /\ resp' = [op |-> "audit", status |-> 200, llm_reply |-> reply,
                           document_id |-> id, total_risks |-> Len(findings),
                           findings |-> findings]
    /\ UNCHANGED <<upload_dir, document_registry, chroma, issued, ing>>

\* --------------------------------------------------------------- POST /ask
\* AskRequest.document_ids is Optional[List[str]]: absent (None) or a list.
AbsentList == [given |-> FALSE, ids |-> <<>>]
IdLists ==
    {AbsentList} \cup
    {[given |-> TRUE, ids |-> l] : l \in UNION {[1..m -> ReqIds] : m \in 0..MaxIds}}

\* `if document_ids:` is false for None and for the empty list
TruthyWhenGiven(document_ids) == document_ids.given
Truthy(document_ids) == document_ids.given /\ document_ids.ids # <<>>

RECURSIVE Arrangements(_, _)
\* the sequences of n distinct elements of S
Arrangements(S, n) ==
    IF n = 0 THEN {<<>>}
    ELSE UNION {{Append(a, x) : x \in S \ Range(a)} : a \in Arrangements(S, n - 1)}

\* vectordb.similarity_search(query, k=n): the results it can return, each
\* the n best-ranked chunks with their document_id.
similarity_search(idx, n) ==
    {[p \in 1..Len(a) |-> [document_id |-> idx[a[p]], chunk |-> a[p]]] :
        a \in Arrangements(1..Len(idx), Min(n, Len(idx)))}

RECURSIVE FilterLoop(_, _, _, _, _)
\* the for loop of ask_question (lines 222-226), from all_docs[j] on
FilterLoop(all_docs, ids, k, docs, j) ==
    IF j > Len(all_docs) THEN docs
    ELSE IF all_docs[j].document_id \in Range(ids)
    THEN LET more == Append(docs, all_docs[j])
         IN IF Len(more) >= k THEN more
            ELSE FilterLoop(all_docs, ids, k, more, j + 1)
    ELSE FilterLoop(all_docs, ids, k, docs, j + 1)

\* the k passed to similarity_search by ask_question
FetchWithoutOverFetch(k, document_ids) == k
Fetch(k, document_ids) == IF Truthy(document_ids) THEN k * OverFetch ELSE k

\* docs of ask_question, given what similarity_search returned
RetrieveUnfiltered(all_docs, k, document_ids) == SubSeq(all_docs, 1, Min(k, Len(all_docs)))
Retrieve(all_docs, k, document_ids) ==
    IF Truthy(document_ids)
    THEN FilterLoop(all_docs, document_ids.ids, k, <<>>, 1)
    ELSE all_docs

\* ask_question from `if not docs` on (lines 230-243): the short circuit, or
\* the call of the chat model, which answers or raises.
AnswerAlwaysAsking(docs, llm_ok) ==
    IF llm_ok THEN [raised |-> FALSE, llm_called |-> TRUE, answer |-> "llm answer"]
    ELSE [raised |-> TRUE, llm_called |-> TRUE, answer |-> ""]
Answer(docs, llm_ok) ==
    IF docs = <<>> THEN [raised |-> FALSE, llm_called |-> FALSE, answer |-> NoAnswer]
    ELSE IF llm_ok THEN [raised |-> FALSE, llm_called |-> TRUE, answer |-> "llm answer"]
    ELSE [raised |-> TRUE, llm_called |-> TRUE, answer |-> ""]

\* Citation(document_id=doc.metadata.get("document_id", "unknown"), ...)
Citation(doc) ==
    [document_id |-> IF doc.document_id = NoneId THEN "unknown" ELSE doc.document_id,
     chunk |-> doc.chunk]

\* the validation loop of ask_question_api (lines 561-568): TRUE when it
\* raises HTTPException(404)
UnknownIdsNever(document_ids) == FALSE
UnknownIdsFirstOnly(document_ids) ==
    Truthy(document_ids) /\ document_ids.ids[1] \notin MetadataFiles
UnknownIds(document_ids) ==
    /\ Truthy(document_ids)
    /\ \E n \in 1..Len(document_ids.ids) : document_ids.ids[n] \notin MetadataFiles

\* load_vector_db and the embedding of the question are taken to return; the
\* chat model answers (llm_ok) or raises.
\* resp.fetched is what the vector store returned to this request and
\* resp.llm_called whether the chat model was invoked: both are seen by the
\* stubs, not by the client.
ask_question_api(document_ids, k, llm_ok) ==
    /\ Quiet
    /\ UNCHANGED gen
    /\ req' = [op |-> "ask", document_ids |-> document_ids, k |-> k]
    /\ IF UnknownIds(document_ids)
       THEN /\ resp' = [op |-> "ask", status |-> 404, llm_called |-> FALSE,
                        fetched |-> <<>>, answer |-> "", citations |-> <<>>]
            /\ UNCHANGED metrics
       ELSE \E all_docs \in similarity_search(chroma, Fetch(k, document_ids)) :
            LET docs == Retrieve(all_docs, k, document_ids)
                a == Answer(docs, llm_ok)
            IN IF a.raised
               THEN /\ resp' = [op |-> "ask", status |-> 500, llm_called |-> a.llm_called,
                                fetched |-> all_docs, answer |-> "",
                                citations |-> <<>>]
                    /\ UNCHANGED metrics
               ELSE /\ Served < MaxRequests
                    /\ metrics' = [metrics EXCEPT !.total_questions = @ + 1]
                    /\ resp' = [op |-> "ask", status |-> 200,
                                llm_called |-> a.llm_called, fetched |-> all_docs,
                                answer |-> a.answer,
                                citations |-> [n \in 1..Len(docs) |-> Citation(docs[n])]]
    /\ UNCHANGED <<metadata_dir, upload_dir, document_registry, chroma, issued, ing>>

\* ------------------------------------------- GET /documents, GET /metrics
list_documents ==
    /\ Quiet
    /\ UNCHANGED gen
    /\ req' = [op |-> "documents"]
    /\ resp' = [op |-> "documents", status |-> 200,
                documents |-> [d \in MetadataFiles |->
                                 [document_id |-> metadata_dir[d].document_id,
                                  filename |-> metadata_dir[d].filename,
                                  num_chunks |-> metadata_dir[d].num_chunks]],
                total |-> Cardinality(MetadataFiles)]
    /\ UNCHANGED <<metadata_dir, upload_dir, document_registry, metrics, chroma,
                   issued, ing>>

get_metrics ==
    /\ Quiet
    /\ UNCHANGED gen
    /\ req' = [op |-> "metrics"]
    /\ resp' = [op |-> "metrics", status |-> 200,
                total_documents |-> Cardinality(MetadataFiles),
                total_ingestions |-> metrics.total_ingestions,
                total_extractions |-> metrics.total_extractions,
                total_questions |-> metrics.total_questions,
                total_audits |-> metrics.total_audits]
    /\ UNCHANGED <<metadata_dir, upload_dir, document_registry, metrics, chroma,
                   issued, ing>>

FileLists == UNION {[1..m -> Filenames] : m \in 0..MaxFiles}

\* The response goes out to the client.
Respond ==
    /\ ~Quiet
    /\ UNCHANGED gen
    /\ req' = NoRequest
    /\ resp' = NoResponse
    /\ UNCHANGED <<metadata_dir, upload_dir, document_registry, metrics, chroma,
                   issued, ing>>

Next ==
    \/ \E files \in FileLists : IngestStart(files)
    \/ \E outcome \in IngestOutcomes, n \in 0..MaxChunks : IngestResume(outcome, n)
    \/ \E id \in ReqIds, reply \in ExtractReplies : extract_fields(id, reply)
    \/ \E id \in ReqIds, reply \in AuditReplies : audit_contract(id, reply)
    \/ \E document_ids \in IdLists, k \in 1..MaxK, llm_ok \in BOOLEAN :
          ask_question_api(document_ids, k, llm_ok)
    \/ list_documents
    \/ get_metrics
    \/ \E n \in 1..MaxUntagged : ingest_pdf(n)
    \/ \E id \in DocIds : RemovePdf(id)
    \/ Respond

Spec == Init /\ [][Next]_vars

\* ------------------------------------------------- a store with contracts
MaxIndex == 6
MaxTokens == 2

\* the tags in the order the chunks were stored: the documents in order of
\* ingestion, then the chunks written by src/app.py
TagOf(t) == IF t <= MaxDocs THEN UuidPool[t] ELSE NoneId

Indexes ==
    {[p \in 1..Len(f) |-> TagOf(f[p])] :
        f \in {g \in UNION {[1..m -> 1..(MaxDocs + 1)] : m \in 0..MaxIndex} :
                  \A p \in 1..(Len(g) - 1) : g[p] <= g[p + 1]}}

\* The service after /ingest has stored every document of DocIds, each in a
\* batch of its own, and src/app.py has added its chunks: up to MaxIndex
\* chunks in all.
InitStored ==
    /\ chroma \in Indexes
    /\ metadata_dir =
          [d \in DocIds |->
              NewMetadata(d, Pdf, Cardinality({p \in 1..Len(chroma) : chroma[p] = d}))]
    /\ document_registry = metadata_dir
    /\ upload_dir = DocIds
    /\ issued = DocIds
    /\ metrics = [total_ingestions |-> MaxDocs, total_extractions |-> 0,
                  total_questions |-> 0, total_audits |-> 0]
    /\ ing = Idle
    /\ req = NoRequest
    /\ resp = NoResponse
    /\ gen = GenIdle

NextAsk ==
    \/ \E document_ids \in IdLists, k \in 1..MaxK, llm_ok \in BOOLEAN :
          ask_question_api(document_ids, k, llm_ok)
    \/ Respond

SpecAsk == InitStored /\ [][NextAsk]_vars

\* ----------------------------------------------------------- stream_answer
\* One server-sent event: {"type": ..., "content": ...}; the content is the
\* citation list of a citations event and a text otherwise.
Event(type, citations, text) == [type |-> type, citations |-> citations, text |-> text]

NoRelevant == "No relevant information found"

\* the except clause of stream_answer (lines 390-391)
OnExceptionReraise(events, e) == events
OnException(events, e) == Append(events, Event("error", <<>>, e))

\* stream_answer from the call to its first yield (lines 342-369): the
\* retrieval of ask_question, then the error event of an empty retrieval or
\* the citations event.  similarity_search returns (search_ok) or raises.
stream_answer(k, document_ids, search_ok) ==
    /\ gen.pc = "idle"
    /\ IF ~search_ok
       THEN gen' = [gen EXCEPT !.pc = "closed", !.raised = TRUE,
                               !.events = OnException(@, "similarity_search raised")]
       ELSE \E all_docs \in similarity_search(chroma, Fetch(k, document_ids)) :
            LET docs == Retrieve(all_docs, k, document_ids)
            IN IF docs = <<>>
               THEN gen' = [gen EXCEPT !.pc = "closed",
                                       !.events = Append(@, Event("error", <<>>, NoRelevant))]
               ELSE gen' = [gen EXCEPT
                               !.pc = "streaming", !.docs = docs,
                               !.events = Append(@, Event("citations",
                                   [n \in 1..Len(docs) |-> Citation(docs[n])], ""))]
    /\ UNCHANGED <<metadata_dir, upload_dir, document_registry, metrics, chroma,
                   issued, ing, req, resp>>

\* One turn of `for chunk in llm.stream(prompt)` (lines 382-385): a chunk
\* with content is yielded as a token event, one without is passed over.
StreamChunk(content) ==
    /\ gen.pc = "streaming"
    /\ gen.n < MaxTokens
    /\ gen' = [gen EXCEPT !.n = @ + 1,
                          !.events = IF content # "" THEN Append(@, Event("token", <<>>, content))
                                     ELSE @]
    /\ UNCHANGED <<metadata_dir, upload_dir, document_registry, metrics, chroma,
                   issued, ing, req, resp>>

\* The end of the loop: llm.stream is exhausted (ok) and the done event is
\* yielded (line 388), or the chat model raises.
StreamEnd(ok) ==
    /\ gen.pc = "streaming"
    /\ gen' = IF ok
              THEN [gen EXCEPT !.pc = "closed",
                               !.events = Append(@, Event("done", <<>>, ""))]
              ELSE [gen EXCEPT !.pc = "closed", !.raised = TRUE,
                               !.events = OnException(@, "llm.stream raised")]
    /\ UNCHANGED <<metadata_dir, upload_dir, document_registry, metrics, chroma,
                   issued, ing, req, resp>>

NextStream ==
    \/ \E k \in 1..MaxK, document_ids \in IdLists, search_ok \in BOOLEAN :
          stream_answer(k, document_ids, search_ok)
    \/ \E content \in {"text", ""} : StreamChunk(content)
    \/ \E ok \in BOOLEAN : StreamEnd(ok)

SpecStream == InitStored /\ [][NextStream]_vars

\* ================================================================= claims
\* A step that completes a request of kind op: its response is in resp'.
Answers(op) == Quiet /\ resp'.op = op

HasNonPdf(files) == \E n \in 1..Len(files) : ~EndsWith(files[n], DotPdf)

\* ---------------------------------------------------------------------- C1
\* C1: every POST /ingest that contains a file whose name does not end in
\* ".pdf" is answered 400, and nothing is recorded for the rejected file
\* (registry and metadata store hold the same documents).
C1_NonPdfAnswered400 ==
    (resp.op = "ingest" /\ HasNonPdf(req.files)) =>
        /\ resp.status = 400
        /\ DOMAIN document_registry = MetadataFiles

\* ---------------------------------------------------------------------- C2
\* C2: /extract and /audit answer 404 when the document_id has no metadata
\* record or its PDF is no longer in the upload directory; the chat model is
\* then not called, no metadata file is written and no counter moves.
C2_Missing(id) ==
    \/ id \notin DOMAIN metadata_dir
    \/ metadata_dir[id].file_path \notin upload_dir

C2_NotFoundLeavesNoTrace ==
    [][ /\ (Answers("extract") /\ C2_Missing(req'.document_id)) =>
              /\ resp'.status = 404
              /\ resp'.llm_reply = NotCalled
              /\ metadata_dir' = metadata_dir
              /\ metrics' = metrics
        /\ (Answers("audit") /\ C2_Missing(req'.document_id)) =>
              /\ resp'.status = 404
              /\ resp'.llm_reply = AuditNotCalled
              /\ metadata_dir' = metadata_dir
              /\ metrics' = metrics
      ]_vars

\* A registered document whose PDF was removed is asked for and answered 404.
C2_Witness ==
    /\ resp.op \in {"extract", "audit"}
    /\ resp.status = 404
    /\ req.document_id \in MetadataFiles
    /\ metadata_dir[req.document_id].file_path \notin upload_dir

\* ---------------------------------------------------------------------- C3
\* C3: when POST /ask carries a non-empty allow-list, every citation of the
\* response names a document of that list, whatever the index holds.
C3_CitationsWithinAllowList ==
    (resp.op = "ask" /\ req.document_ids.given /\ req.document_ids.ids # <<>>) =>
        \A n \in 1..Len(resp.citations) :
            resp.citations[n].document_id \in Range(req.document_ids.ids)

\* An allow-listed request is answered with a citation although the store
\* returned a chunk of a document outside the list.
C3_Witness ==
    /\ resp.op = "ask"
    /\ req.document_ids.given
    /\ req.document_ids.ids # <<>>
    /\ resp.citations # <<>>
    /\ \E n \in 1..Len(resp.fetched) :
          resp.fetched[n].document_id \notin Range(req.document_ids.ids)

\* ---------------------------------------------------------------------- C4
\* C4: for a registered document with its PDF in place, a reply of the chat
\* model that is not JSON, or is JSON but no object of the ContractFields
\* schema, still gives a 200 with the empty ContractFields, and that empty
\* result is saved in the metadata record.
C4_MalformedReplyDegrades ==
    (/\ resp.op = "extract"
     /\ resp.llm_reply \in ExtractTexts
     /\ ~(IsJson(resp.llm_reply) /\ IsObject(resp.llm_reply) /\ Conforms(resp.llm_reply)))
    => /\ resp.status = 200
       /\ resp.fields = "empty"
       /\ metadata_dir[req.document_id].extracted_fields = "empty"

\* ---------------------------------------------------------------------- C5
RECURSIVE SumNumChunks(_, _)
\* the sum of the num_chunks written to the records of ids
SumNumChunks(dir, ids) ==
    IF ids = <<>> THEN 0
    ELSE dir[Head(ids)].num_chunks + SumNumChunks(dir, Tail(ids))

ChunksOf(idx, id) == {p \in 1..Len(idx) : idx[p] = id}

FirstChunk(idx, id) == CHOOSE p \in ChunksOf(idx, id) : \A q \in ChunksOf(idx, id) : p <= q

\* C5: a POST /ingest of N PDFs that all process without exception returns N
\* identifiers, pairwise distinct and new to the metadata store, in the order
\* of the files, and total_chunks is the sum of the chunk counts: of the
\* num_chunks of the N records and of the chunks stored for the N documents.
C5_IngestReturnsFreshIdsAndChunkSum ==
    [][ /\ (ing'.pc = "reading" /\ ing' # ing) =>
              /\ ing'.document_id \notin DOMAIN metadata_dir'
              /\ ing'.document_id \notin Range(ing'.document_ids)
        /\ (Answers("ingest") /\ resp'.status = 200) =>
              LET ids == resp'.document_ids
                  files == req'.files
              IN /\ Len(ids) = Len(files)
                 /\ \A m, n \in 1..Len(ids) : m # n => ids[m] # ids[n]
                 /\ \A n \in 1..Len(ids) :
                       /\ ids[n] \in DOMAIN metadata_dir'
                       /\ metadata_dir'[ids[n]].document_id = ids[n]
                       /\ metadata_dir'[ids[n]].filename = files[n]
                 /\ \A m, n \in 1..Len(ids) :
                       (/\ m < n
                        /\ ChunksOf(chroma', ids[m]) # {}
                        /\ ChunksOf(chroma', ids[n]) # {})
                       => FirstChunk(chroma', ids[m]) < FirstChunk(chroma', ids[n])
                 /\ resp'.total_chunks = SumNumChunks(metadata_dir', ids)
                 /\ resp'.total_chunks =
                       Cardinality({p \in 1..Len(chroma') : chroma'[p] \in Range(ids)})
      ]_vars

\* A batch of two PDFs, each with a chunk, has been answered.
C5_Witness ==
    /\ resp.op = "ingest"
    /\ resp.status = 200
    /\ Len(resp.document_ids) = 2
    /\ resp.total_chunks = 2

\* ---------------------------------------------------------------------- C6
\* C6: POST /ask answers 404 as soon as one identifier of document_ids has no
\* metadata record, even beside known ones; nothing is searched, the chat
\* model is not called and total_questions does not move.
C6_UnknownIdIs404 ==
    [][ (/\ Answers("ask")
         /\ req'.document_ids.given
         /\ \E n \in 1..Len(req'.document_ids.ids) :
               req'.document_ids.ids[n] \notin DOMAIN metadata_dir)
        => /\ resp'.status = 404
           /\ resp'.fetched = <<>>
           /\ resp'.citations = <<>>
           /\ ~resp'.llm_called
           /\ metrics' = metrics
      ]_vars

\* A list with a known identifier first and an unknown one after it is
\* answered 404 while the index is not empty.
C6_Witness ==
    /\ resp.op = "ask"
    /\ resp.status = 404
    /\ Len(req.document_ids.ids) = 2
    /\ req.document_ids.ids[1] \in MetadataFiles
    /\ req.document_ids.ids[2] \notin MetadataFiles
    /\ ChunksOf(chroma, req.document_ids.ids[1]) # {}

\* ---------------------------------------------------------------------- C7
\* C7: when the retrieval of POST /ask yields no window (the store returns
\* nothing, or none of what it returns belongs to an allow-listed document),
\* the answer is the fixed "no relevant information" text with no citation,
\* and the chat model is not called.
C7_EmptyRetrievalShortCircuits ==
    (/\ resp.op = "ask"
     /\ resp.status # 404
     /\ \/ resp.fetched = <<>>
        \/ /\ req.document_ids.given
           /\ req.document_ids.ids # <<>>
           /\ \A n \in 1..Len(resp.fetched) :
                 resp.fetched[n].document_id \notin Range(req.document_ids.ids))
    => /\ resp.status = 200
       /\ resp.answer = NoAnswer
       /\ resp.citations = <<>>
       /\ ~resp.llm_called

\* The store returned chunks, none of an allow-listed document.
C7_Witness ==
    /\ resp.op = "ask"
    /\ resp.status = 200
    /\ req.document_ids.given
    /\ req.document_ids.ids # <<>>
    /\ resp.fetched # <<>>
    /\ resp.answer = NoAnswer

\* ---------------------------------------------------------------------- C8
IsPrefix(s, t) == Len(s) <= Len(t) /\ SubSeq(t, 1, Len(s)) = s

\* C8: when a file of a POST /ingest batch raises, the request is answered
\* with the generic 500, the coroutine ends so that no later file is
\* processed, and what the earlier files wrote (PDFs, chunks, metadata
\* records, registry entries) stays, though no identifier is returned.
C8_FailureAbortsWithoutRollback ==
    [][ (Answers("ingest") /\ resp'.status = 500) =>
           /\ ing' = Idle
           /\ issued' = issued
           /\ DOMAIN resp' = {"op", "status", "detail"}
           /\ metrics' = metrics
           /\ upload_dir' = upload_dir
           /\ IsPrefix(chroma, chroma')
           /\ \A id \in DOMAIN metadata_dir : 
                 id \in DOMAIN metadata_dir' /\ metadata_dir'[id] = metadata_dir[id]
           /\ \A id \in DOMAIN document_registry :
                 /\ id \in DOMAIN document_registry'
                 /\ document_registry'[id] = document_registry[id]
           /\ \A n \in 1..Len(ing.document_ids) :
                 /\ ing.document_ids[n] \in DOMAIN metadata_dir'
                 /\ ing.document_ids[n] \in DOMAIN document_registry'
                 /\ Cardinality(ChunksOf(chroma', ing.document_ids[n]))
                       = metadata_dir'[ing.document_ids[n]].num_chunks
           /\ DOMAIN metadata_dir' \ DOMAIN metadata_dir \subseteq {ing.document_id}
      ]_vars

\* The second file of a batch failed after the first one was stored with a
\* chunk: the first one's record and chunk are there.
C8_Witness ==
    /\ resp.op = "ingest"
    /\ resp.status = 500
    /\ Len(req.files) = 2
    /\ resp.detail # "not a PDF"
    /\ \E id \in MetadataFiles : ChunksOf(chroma, id) # {}

\* ---------------------------------------------------------------------- C9
\* C9 as claimed: every citation of every POST /ask response names a document
\* that has a metadata record.
C9_EveryCitationHasMetadata ==
    resp.op = "ask" =>
        \A n \in 1..Len(resp.citations) :
            resp.citations[n].document_id \in MetadataFiles

\* C9 as amended: every citation of a POST /ask response to a request with a
\* non-empty allow-list names a document that has a metadata record.
C9_AllowListedCitationHasMetadata ==
    (resp.op = "ask" /\ req.document_ids.given /\ req.document_ids.ids # <<>>) =>
        \A n \in 1..Len(resp.citations) :
            resp.citations[n].document_id \in MetadataFiles

\* An allow-listed request is answered with a citation while the index holds
\* a chunk whose document has no metadata record.
C9_Witness ==
    /\ resp.op = "ask"
    /\ req.document_ids.given
    /\ req.document_ids.ids # <<>>
    /\ resp.citations # <<>>
    /\ \E p \in 1..Len(chroma) : chroma[p] \notin MetadataFiles

\* --------------------------------------------------------------------- C10
\* The step wrote the metadata record of the file the /ingest coroutine was
\* reading: it went on to the next file, returned, or failed on the suffix
\* of the next file.
C10_RecordWritten ==
    /\ Quiet
    /\ ing.pc = "reading"
    /\ \/ ing'.pc = "reading" /\ ing'.i = ing.i + 1
       \/ resp'.op = "ingest" /\ resp'.status = 200
       \/ resp'.op = "ingest" /\ resp'.status = 500 /\ resp'.detail = "not a PDF"

\* C10: whatever requests were served, total_documents of /metrics and total
\* of /documents are the number of metadata files; /extract and /audit leave
\* that number alone and /ingest raises it by one for each record it writes.
C10_TotalDocumentsCountsMetadataFiles ==
    [][ /\ resp'.op = "metrics" =>
              resp'.total_documents = Cardinality(DOMAIN metadata_dir')
        /\ resp'.op = "documents" =>
              /\ resp'.total = Cardinality(DOMAIN metadata_dir')
              /\ DOMAIN resp'.documents = DOMAIN metadata_dir'
        /\ IF C10_RecordWritten
           THEN Cardinality(DOMAIN metadata_dir') = Cardinality(DOMAIN metadata_dir) + 1
           ELSE Cardinality(DOMAIN metadata_dir') = Cardinality(DOMAIN metadata_dir)
      ]_vars

\* /metrics reports two documents after an extraction and an audit.
C10_Witness ==
    /\ resp.op = "metrics"
    /\ resp.total_documents = 2
    /\ metrics.total_extractions > 0
    /\ metrics.total_audits > 0

\* --------------------------------------------------------------------- C11
\* The reply is no JSON array of well-formed findings.
C11_Malformed(reply) ==
    \/ reply.json \in {"invalid", "object"}
    \/ /\ reply.json = "array"
       /\ \E n \in 1..Len(reply.items) : reply.items[n] # "finding"

\* C11: for a registered document with its PDF in place, a reply to the
\* audit prompt that is not JSON, is no JSON array, or is an array with an
\* ill-formed item, is answered 200 with no finding and total_risks 0; and
\* in every 200 of /audit total_risks is the number of findings and the
\* total_risks saved in the metadata record.
C11_MalformedAuditDegrades ==
    /\ (resp.op = "audit" /\ C11_Malformed(resp.llm_reply)) =>
          /\ resp.status = 200
          /\ resp.findings = <<>>
          /\ resp.total_risks = 0
    /\ (resp.op = "audit" /\ resp.status = 200) =>
          /\ resp.total_risks = Len(resp.findings)
          /\ \A n \in 1..Len(resp.findings) : resp.findings[n] = "finding"
          /\ metadata_dir[req.document_id].audit_results =
                {[total_risks |-> resp.total_risks, findings |-> resp.findings]}

\* An array that holds a well-formed finding and an ill-formed item was
\* answered.
C11_Witness ==
    /\ resp.op = "audit"
    /\ resp.llm_reply.json = "array"
    /\ \E n \in 1..Len(resp.llm_reply.items) : resp.llm_reply.items[n] = "finding"
    /\ \E n \in 1..Len(resp.llm_reply.items) : resp.llm_reply.items[n] = "junk"
    /\ resp.status = 200

\* --------------------------------------------------------------------- C12
C12_Types == [n \in 1..Len(gen.events) |-> gen.events[n].type]
C12_Count(type) == Cardinality({n \in 1..Len(gen.events) : gen.events[n].type = type})
C12_Last ==
    IF gen.events = <<>> THEN "none" ELSE gen.events[Len(gen.events)].type

\* at most one citations event, and it precedes every token event; nothing
\* follows a done or an error event
C12_Order ==
    /\ C12_Count("citations") <= 1
    /\ \A n \in 1..Len(gen.events) :
          /\ gen.events[n].type = "token" =>
                \E m \in 1..(n - 1) : gen.events[m].type = "citations"
          /\ gen.events[n].type \in {"done", "error"} => n = Len(gen.events)

\* C12 as stated: every event sequence of stream_answer has a single
\* citations event before any token event; when no exception occurred in
\* the generator the sequence ends with its one done event; when one
\* occurred it ends with an error event; nothing follows done or error.
C12_StreamEndsWithDone ==
    /\ C12_Order
    /\ (gen.pc = "closed" /\ ~gen.raised) =>
          /\ C12_Count("citations") = 1
          /\ C12_Count("done") = 1
          /\ C12_Last = "done"
    /\ (gen.pc = "closed" /\ gen.raised) => C12_Last = "error"

\* C12 amended: the done event (and the citations event) is owed only when
\* the retrieval found a window; an empty retrieval, which is no exception,
\* ends the sequence with the single error event "No relevant information
\* found".
C12_StreamEndsWithDoneUnlessEmpty ==
    /\ C12_Order
    /\ (gen.pc = "closed" /\ ~gen.raised /\ gen.docs # <<>>) =>
          /\ C12_Count("citations") = 1
          /\ C12_Count("done") = 1
          /\ C12_Count("error") = 0
          /\ C12_Last = "done"
    /\ (gen.pc = "closed" /\ ~gen.raised /\ gen.docs = <<>>) =>
          gen.events = <<Event("error", <<>>, NoRelevant)>>
    /\ (gen.pc = "closed" /\ gen.raised) =>
          /\ C12_Last = "error"
          /\ C12_Count("error") = 1
          /\ C12_Count("done") = 0

\* The chat model raised after a token had been sent.
C12_Witness ==
    /\ gen.pc = "closed"
    /\ gen.raised
    /\ C12_Types = <<"citations", "token", "error">>

\* --------------------------------------------------------------------- C13
\* the keys written at ingestion
IngestionKeys == {"document_id", "filename", "upload_date", "num_pages",
                  "num_chunks", "file_path", "full_text_preview"}

\* C13: a successful /extract stores its fields and a successful /audit its
\* results in the record of the document, and no step of any request takes
\* a stored extraction or audit out of a record or changes a key written at
\* ingestion; so after both succeeded on a document, in either order and
\* with any requests in between, its record holds both results and the
\* ingestion-time keys as they were.
C13_ExtractAndAuditAccumulate ==
    [][ /\ \A id \in DOMAIN metadata_dir :
              /\ id \in DOMAIN metadata_dir'
              /\ \A key \in IngestionKeys :
                    metadata_dir'[id][key] = metadata_dir[id][key]
              /\ metadata_dir[id].extracted_fields # "absent" =>
                    metadata_dir'[id].extracted_fields # "absent"
              /\ metadata_dir[id].audit_results # {} =>
                    metadata_dir'[id].audit_results # {}
        /\ (Answers("extract") /\ resp'.status = 200) =>
              metadata_dir'[req'.document_id].extracted_fields = resp'.fields
        /\ (Answers("audit") /\ resp'.status = 200) =>
              metadata_dir'[req'.document_id].audit_results =
                 {[total_risks |-> resp'.total_risks, findings |-> resp'.findings]}
      ]_vars

\* /extract has just succeeded on a document audited before, or /audit on a
\* document with extracted fields: the record holds both.
C13_Witness ==
    /\ resp.op \in {"extract", "audit"}
    /\ resp.status = 200
    /\ metadata_dir[req.document_id].extracted_fields # "absent"
    /\ metadata_dir[req.document_id].audit_results # {}
    /\ \A key \in IngestionKeys :
          metadata_dir[req.document_id][key] = document_registry[req.document_id][key]

\* --------------------------------------------------------------------- C14
\* the entries of what the vector store returned whose document is on the
\* allow-list, in rank order
C14_AllowListed(fetched, ids) ==
    LET OnList(d) == d.document_id \in Range(ids)
    IN SelectSeq(fetched, OnList)

C14_FirstK(s, k) == SubSeq(s, 1, Min(k, Len(s)))

C14_HasAllowList == req.document_ids.given /\ req.document_ids.ids # <<>>

\* C14: a 200 of /ask has one citation for each retrieved window, in rank
\* order, and at most k of them.  With a non-empty allow-list the vector
\* store is asked for its 5*k best chunks and the retrieved windows are the
\* first k of these that are allow-listed; without one they are the k best
\* chunks.
C14_CitationsAreFirstKAllowListed ==
    (resp.op = "ask" /\ resp.status = 200) =>
        LET k == req.k
            windows == IF C14_HasAllowList
                       THEN C14_FirstK(C14_AllowListed(resp.fetched, req.document_ids.ids), k)
                       ELSE resp.fetched
        IN /\ Len(resp.fetched) = Min(IF C14_HasAllowList THEN 5 * k ELSE k, Len(chroma))
           /\ \A n \in 1..Len(resp.fetched) :
                 /\ resp.fetched[n].chunk \in 1..Len(chroma)
                 /\ resp.fetched[n].document_id = chroma[resp.fetched[n].chunk]
                 /\ \A m \in 1..(n - 1) : resp.fetched[m].chunk # resp.fetched[n].chunk
           /\ Len(resp.citations) <= k
           /\ Len(resp.citations) = Len(windows)
           /\ \A n \in 1..Len(windows) :
                 /\ resp.citations[n].chunk = windows[n].chunk
                 /\ resp.citations[n].document_id =
                       IF windows[n].document_id = NoneId THEN "unknown"
                       ELSE windows[n].document_id

\* Fewer than k citations although the index holds k allow-listed chunks:
\* they rank below the 5*k best.
C14_Witness ==
    /\ resp.op = "ask"
    /\ resp.status = 200
    /\ C14_HasAllowList
    /\ Len(resp.fetched) = 5 * req.k
    /\ Len(resp.citations) < req.k
    /\ Cardinality({p \in 1..Len(chroma) :
                       chroma[p] \in Range(req.document_ids.ids)}) >= req.k

\* --------------------------------------------------------------------- C15
\* the step completes a request of kind op with a 200
C15_Succeeds(op) == Answers(op) /\ resp'.status = 200

\* the records the batch in progress has written so far
C15_InFlight == IF ing.pc = "reading" THEN Len(ing.document_ids) ELSE 0

\* the records of batches that failed after writing them
C15_Lost == Cardinality(MetadataFiles) - metrics.total_ingestions - C15_InFlight

\* C15: a counter moves only in a step that answers 200: total_extractions,
\* total_questions and total_audits by 1 for /extract, /ask (the "no
\* relevant information" answer included) and /audit, total_ingestions by
\* the number of files of the batch for /ingest; an error response and every
\* other step leave the counters alone.  total_ingestions is never above the
\* number of metadata records, and is below it when a batch fails after a
\* record of it was written, and from then on.
C15_CountersFollowSuccess ==
    [][ /\ metrics'.total_extractions =
              metrics.total_extractions + (IF C15_Succeeds("extract") THEN 1 ELSE 0)
        /\ metrics'.total_questions =
              metrics.total_questions + (IF C15_Succeeds("ask") THEN 1 ELSE 0)
        /\ metrics'.total_audits =
              metrics.total_audits + (IF C15_Succeeds("audit") THEN 1 ELSE 0)
        /\ metrics'.total_ingestions =
              metrics.total_ingestions +
                 (IF C15_Succeeds("ingest") THEN Len(req'.files) ELSE 0)
        /\ metrics'.total_ingestions <= Cardinality(DOMAIN metadata_dir')
        /\ (/\ Answers("ingest")
            /\ resp'.status # 200
            /\ C15_InFlight + Cardinality(DOMAIN metadata_dir')
                  > Cardinality(DOMAIN metadata_dir)) =>
              metrics'.total_ingestions < Cardinality(DOMAIN metadata_dir')
        /\ C15_Lost >= 0
        /\ C15_Lost' >= C15_Lost
      ]_vars

\* A batch of two files has failed at its second file: one record, counted
\* by no counter.
C15_Witness ==
    /\ resp.op = "ingest"
    /\ resp.status = 500
    /\ Len(req.files) = 2
    /\ Cardinality(MetadataFiles) = 1
    /\ metrics.total_ingestions = 0

\* --------------------------------------------------------------------- C16
\* The response is that of an unfiltered search for the k best chunks: no
\* 404, the k best chunks of the whole index fetched, and in a 200 one
\* citation for each of them, the chat model being asked unless there is
\* none.
C16_UnfilteredTopK ==
    /\ resp.status \in {200, 500}
    /\ resp.status = 500 => resp.llm_called
    /\ Len(resp.fetched) = Min(req.k, Len(chroma))
    /\ \A n \in 1..Len(resp.fetched) :
          /\ resp.fetched[n].chunk \in 1..Len(chroma)
          /\ resp.fetched[n].document_id = chroma[resp.fetched[n].chunk]
          /\ \A m \in 1..(n - 1) : resp.fetched[m].chunk # resp.fetched[n].chunk
    /\ resp.status = 200 =>
          /\ resp.llm_called <=> resp.fetched # <<>>
          /\ resp.fetched = <<>> => resp.answer = NoAnswer
          /\ Len(resp.citations) = Len(resp.fetched)
          /\ \A n \in 1..Len(resp.fetched) :
                /\ resp.citations[n].chunk = resp.fetched[n].chunk
                /\ resp.citations[n].document_id =
                      IF resp.fetched[n].document_id = NoneId THEN "unknown"
                      ELSE resp.fetched[n].document_id

\* C16: /ask with document_ids = [] is answered as /ask without
\* document_ids: nothing is validated, the search is the unfiltered one for
\* the k best chunks, and any chunk of the index may be cited.
C16_EmptyListIsNoList ==
    /\ (resp.op = "ask" /\ ~req.document_ids.given) => C16_UnfilteredTopK
    /\ (resp.op = "ask" /\ req.document_ids.given /\ req.document_ids.ids = <<>>) =>
          C16_UnfilteredTopK

\* document_ids = [] was answered from an index of more than k chunks with
\* a citation of a chunk that belongs to no document with a metadata record.
C16_Witness ==
    /\ resp.op = "ask"
    /\ req.document_ids.given
    /\ req.document_ids.ids = <<>>
    /\ resp.status = 200
    /\ Len(chroma) > req.k
    /\ \E n \in 1..Len(resp.citations) :
          resp.citations[n].document_id \notin MetadataFiles

====
